---- MODULE Spec2Model ----
(***************************************************************************)
(* State-machine model of harvest_crypto_channels.py: the per-keyword      *)
(* pagination loop (process_keyword), API-key rotation, the retrying HTTP  *)
(* client and the temp-file-then-replace persistence of the state file and *)
(* the output file, across several runs of main() on the same files.       *)
(*                                                                         *)
(* Encodings.  Keywords are 1..NumKeywords in the order of                 *)
(* config["keywords"].  A channelId is 1..NumChannels, 0 is an item        *)
(* without channelId.  A page token is NoneTok (Python None) or a cursor   *)
(* 1..MaxPageTok, a non-empty string; the cursor n opens page n, the       *)
(* request without pageToken opens page 0, and the answer to page n        *)
(* carries the cursor n+1 or none; the last cursor stands for every later  *)
(* one, so a result can have any number of pages.  The state_file and      *)
(* output_file are distinct paths with distinct ".tmp" siblings.  The      *)
(* process can be killed from outside at any step, MaxKills times in all,  *)
(* and main() can be started again whenever no process is running.         *)
(*                                                                         *)
(* Spec is that system.  RunSpec is one run of main() on no files, not     *)
(* killed, and RunFair the same run with the process always taking its     *)
(* next step.  PureSpec applies get_next_api_key, the merge of a page's    *)
(* items and the writers and readers of the two files on their own, to     *)
(* every argument in bounded sets.                                         *)
(***************************************************************************)
EXTENDS Integers, Sequences, FiniteSets, TLC

\* ---------------------------------------------------------------- bounds
NumKeywords == 2
NumKeys == 2
NumChannels == 1
MaxItems == 1
MaxPageTok == 1
\* how many times the process is killed from outside
MaxKills == 1
\* config["max_results_per_keyword"], a positive integer (line 45): one
\* page can reach it (MaxItems >= max_results) or stay under it
max_results == 1
\* request_with_retries(..., retries: int = 3, ...)
retries == 3

\* the largest pool of keys get_next_api_key is called with on its own
MaxPool == 4

\* the channelIds and the items per page of the pages merged on their own
MaxMergeIds == 2
MaxMergeItems == 2

NoneTok == -1
NoKey == -1
\* get_next_api_key's "return None"
NoKeyInfo == <<>>

KeywordIds == 1..NumKeywords
KeyIndexes == 0..(NumKeys - 1)

\* Python truthiness of a page token: None is falsy, a cursor is truthy
Truthy(tok) == tok # NoneTok

\* ---------------------------------------------------------------- paths
Paths == {"state_file", "state_file.tmp", "output_file", "output_file.tmp"}

\* variant: the save writes in place, straight onto the target
with_suffix_tmp_InPlace(path) == path

\* Path.with_suffix(".tmp") on the two configured paths
with_suffix_tmp(path) ==
  IF path = "state_file" THEN "state_file.tmp" ELSE "output_file.tmp"

Absent == [kind |-> "absent"]
Partial == [kind |-> "partial"]
\* what is left of a temporary file after a kill: nothing reads it, and the
\* next save truncates it
Leftover == [kind |-> "leftover"]
Text(body) == [kind |-> "text", body |-> body]

\* ------------------------------------------------------- keyword progress
DefaultProgress ==
  [last_page_token |-> NoneTok, fetched_count |-> 0, completed |-> FALSE]

\* variant: state[keyword] = {...}, which forgets the stored progress
setdefault_Overwrite(st, k) ==
  [x \in DOMAIN st \cup {k} |-> IF x = k THEN DefaultProgress ELSE st[x]]

\* state.setdefault(keyword, {...})
setdefault(st, k) == IF k \in DOMAIN st THEN st ELSE st @@ (k :> DefaultProgress)

\* lexicographic rank of a keyword's text: the configured list is in
\* reverse alphabetical order, so sort_keys reorders it
KeyRank(k) == NumKeywords + 1 - k

RECURSIVE SortedBy(_, _)
\* sorted(s) for a finite set s of integers, by descending/ascending rank
SortedBy(s, dir) ==
  IF s = {} THEN <<>>
  ELSE LET m == CHOOSE x \in s : \A y \in s : dir * x <= dir * y
       IN <<m>> \o SortedBy(s \ {m}, dir)

\* json.dump(state, f, indent=2, sort_keys=True): the entries in key order
json_dump(st) ==
  LET ks == SortedBy(DOMAIN st, -1)
  IN [i \in 1..Len(ks) |-> <<ks[i], st[ks[i]]>>]

\* json.load on the text written by json_dump
json_load(body) ==
  LET ks == {body[i][1] : i \in 1..Len(body)}
  IN [k \in ks |-> body[CHOOSE i \in 1..Len(body) : body[i][1] = k][2]]

\* variant: every run starts from the empty state
load_state_Fresh(content) == <<>>

\* load_state: {} when the file is missing or does not parse
load_state(content) ==
  IF content.kind = "text" THEN json_load(content.body) ELSE <<>>

\* ---------------------------------------------------------------- registry
\* url = f"https://www.youtube.com/channel/{channel_id}"
ChannelUrl(channel_id) == <<"https://www.youtube.com/channel/", channel_id>>

\* for url in sorted(channels): f.write(url + "\n")
dump_channels(channels) ==
  LET ids == SortedBy({u[2] : u \in channels}, 1)
  IN [i \in 1..Len(ids) |-> ChannelUrl(ids[i])]

\* variant: without line.strip(), so that every URL keeps its line end
load_known_channels_Unstripped(content) ==
  IF content.kind = "text"
  THEN {Append(content.body[i], "\n") : i \in 1..Len(content.body)}
  ELSE {}

\* variant: every run starts from the empty registry
load_known_channels_Empty(content) == {}

\* load_known_channels: the set of the non-blank stripped lines; a missing
\* file gives the empty set (targets never hold partial text, see C8)
load_known_channels(content) ==
  IF content.kind = "text"
  THEN {content.body[i] : i \in 1..Len(content.body)}
  ELSE {}

RECURSIVE MergeItems_NoIdTest(_, _)
\* variant: without the test "if channel_id:"
MergeItems_NoIdTest(channels, items) ==
  IF items = <<>> THEN channels
  ELSE MergeItems_NoIdTest(channels \cup {ChannelUrl(Head(items))}, Tail(items))

\* the loop of lines 208-214 over the items of a page
RECURSIVE MergeItems(_, _)
MergeItems(channels, items) ==
  IF items = <<>> THEN channels
  ELSE LET channel_id == Head(items)
           merged == IF channel_id # 0 /\ ChannelUrl(channel_id) \notin channels
                     THEN channels \cup {ChannelUrl(channel_id)}
                     ELSE channels
       IN MergeItems(merged, Tail(items))

\* ------------------------------------------------------------ credentials
\* a pool of n keys, config["api_keys"]: Python index i is position i + 1
KeyPool(n) == [i \in 1..n |-> <<"api_key", i - 1>>]
api_keys == KeyPool(NumKeys)

RECURSIVE ScanKeys_NoWrap(_, _, _, _)
\* variant: the scan does not wrap round the end of the pool
ScanKeys_NoWrap(keys, exhausted, current_index, offset) ==
  IF current_index + offset >= Len(keys) THEN NoKeyInfo
  ELSE LET idx == current_index + offset
       IN IF idx \notin exhausted THEN <<idx, keys[idx + 1]>>
          ELSE ScanKeys_NoWrap(keys, exhausted, current_index, offset + 1)

RECURSIVE ScanKeys(_, _, _, _)
\* for offset in range(offset, total + 1): the first idx not in exhausted
ScanKeys(keys, exhausted, current_index, offset) ==
  LET total == Len(keys)
  IN IF offset > total THEN NoKeyInfo
     ELSE LET idx == (current_index + offset) % total
          IN IF idx \notin exhausted THEN <<idx, keys[idx + 1]>>
             ELSE ScanKeys(keys, exhausted, current_index, offset + 1)

\* variant: the key that hit its quota is not recorded
MarkExhausted_Forget(exhausted, idx) == exhausted

\* line 191: exhausted_keys.add(current_key_index)
MarkExhausted(exhausted, idx) == exhausted \cup {idx}

\* get_next_api_key: the pair (idx, keys[idx]) found, or None
get_next_api_key(keys, exhausted, current_index) ==
  ScanKeys(keys, exhausted, current_index, 1)

\* ------------------------------------------------------------- responses
\* the error reasons of a body: {item.get("reason") for item in errors}
handle_quota_error(reasons) ==
  "quotaExceeded" \in reasons \/ "dailyLimitExceeded" \in reasons

NoResponse ==
  [status |-> 0, parseable |-> FALSE, reasons |-> {}, items |-> <<>>, next |-> NoneTok]

RECURSIVE SeqsUpTo(_, _)
SeqsUpTo(S, n) ==
  IF n = 0 THEN {<<>>}
  ELSE LET shorter == SeqsUpTo(S, n - 1)
       IN shorter \cup {Append(q, x) : q \in shorter, x \in S}

\* the item lists a page can carry: up to MaxItems items, each with a
\* channelId or without one
ItemLists == SeqsUpTo(0..NumChannels, MaxItems)

\* the page a request opens, and the cursors its answer can carry: none, or
\* the next one; the cursor MaxPageTok stands for itself and every later one,
\* so the API can go on answering it with a next cursor
PageOf(pageToken) == IF Truthy(pageToken) THEN pageToken ELSE 0
NextTokens(pageToken) ==
  {NoneTok} \cup
  {IF PageOf(pageToken) < MaxPageTok THEN PageOf(pageToken) + 1 ELSE MaxPageTok}

\* what the API can answer to a request
Responses(pageToken) ==
  {[status |-> 200, parseable |-> TRUE, reasons |-> {}, items |-> it, next |-> n] :
      it \in ItemLists, n \in NextTokens(pageToken)}
  \cup {[status |-> s, parseable |-> FALSE, reasons |-> {}, items |-> <<>>,
          next |-> NoneTok] : s \in {200, 403}}
  \cup {[status |-> 403, parseable |-> TRUE, reasons |-> r, items |-> <<>>,
          next |-> NoneTok] :
          r \in {{"quotaExceeded"}, {"dailyLimitExceeded"}, {"forbidden"}}}
  \cup {[status |-> 500, parseable |-> TRUE, reasons |-> r, items |-> <<>>,
          next |-> NoneTok] : r \in {{}, {"quotaExceeded"}}}

\* variant: ">" in place of ">="
ShouldComplete_Over(progress) ==
  progress.fetched_count > max_results \/ ~Truthy(progress.last_page_token)

\* variant: "and" in place of "or"
ShouldComplete_And(progress) ==
  progress.fetched_count >= max_results /\ ~Truthy(progress.last_page_token)

\* line 228: the cap is reached or the page carried no next cursor
ShouldComplete(progress) ==
  progress.fetched_count >= max_results \/ ~Truthy(progress.last_page_token)

\* search_videos_for_keyword returns data (not None) exactly for a 200
\* whose body parses
HasData(r) == r.status = 200 /\ r.parseable

\* variant: the status is not looked at
IsQuota_AnyStatus(r) ==
  /\ ~HasData(r)
  /\ handle_quota_error(IF r.parseable THEN r.reasons ELSE {})

\* lines 185-190: a 403 whose body (or {} if it does not parse) names a quota reason
IsQuota(r) ==
  /\ ~HasData(r)
  /\ r.status = 403
  /\ handle_quota_error(IF r.parseable THEN r.reasons ELSE {})

\* ---------------------------------------------------------------- state
VARIABLES
  pc,                 \* position of the process (or how it ended)
  kills,              \* number of kills so far
  kwIdx,              \* position of main's for loop in config["keywords"]
  state,              \* the state mapping: keyword -> progress record
  known_channels,     \* the registry
  fs,                 \* the files: path -> content
  wstep,              \* position inside save_state / save_known_channels
  current_key_index,  \* process_keyword's local
  exhausted_keys,     \* process_keyword's local
  attempt,            \* request_with_retries' local
  req,                \* the parameters of the request in flight
  resp,               \* the last response received
  snap,               \* history: state and registry after the last successful page
  marked,             \* history: key indexes marked exhausted during this run
  curFetched,         \* history: <<keyword, page>> fetched successfully in this run
  prevFetched,        \* history: the same for the run before, if it was killed
  call,               \* a function called on its own: its name and arguments
  ret                 \* what that call returned

vars == <<pc, kills, kwIdx, state, known_channels, fs, wstep, current_key_index,
          exhausted_keys, attempt, req, resp, snap, marked, curFetched, prevFetched,
          call, ret>>

locals == <<current_key_index, exhausted_keys, attempt, req, resp>>
history == <<snap, marked, curFetched, prevFetched>>
\* the variables of the calls made on their own; main() does not touch them
pure == <<call, ret>>

NoCall == [fn |-> "none"]
NoReturn == [done |-> FALSE]
Returned(v) == [done |-> TRUE, value |-> v]

NoRequest == [q |-> 0, key |-> NoKey, pageToken |-> NoneTok]

\* how a process can end: normal return of main, sys.exit(0), an uncaught
\* exception, or a kill from outside
Terminal == {"finished", "exited", "aborted", "killed"}

SavePcs == {"ok_save_state", "ok_save_out", "done_save_state",
            "fail_save_state", "fail_save_out",
            "halt_save_state", "halt_save_out"}

keyword == IF kwIdx \in KeywordIds THEN kwIdx ELSE 0
kw_state == state[keyword]

\* no process has run yet: no file exists
Idle ==
  /\ pc = "start"
  /\ kills = 0
  /\ kwIdx = 0
  /\ state = <<>>
  /\ known_channels = {}
  /\ fs = [p \in Paths |-> Absent]
  /\ wstep = 0
  /\ current_key_index = 0
  /\ exhausted_keys = {}
  /\ attempt = 0
  /\ req = NoRequest
  /\ resp = NoResponse
  /\ snap = [state |-> <<>>, known |-> {}]
  /\ marked = {}
  /\ curFetched = {}
  /\ prevFetched = {}

Init ==
  /\ Idle
  /\ call = NoCall
  /\ ret = NoReturn

\* the locals of process_keyword go out of scope when it returns
ResetLocals ==
  /\ current_key_index' = 0
  /\ exhausted_keys' = {}
  /\ attempt' = 0
  /\ req' = NoRequest
  /\ resp' = NoResponse

\* main, lines 240-253: a (new) process loads the two files
MainStart ==
  /\ pc \in {"start"} \cup Terminal
  /\ state' = load_state(fs["state_file"])
  /\ known_channels' = load_known_channels(fs["output_file"])
  /\ kwIdx' = 1
  /\ pc' = "entry"
  /\ wstep' = 0
  /\ ResetLocals
  /\ snap' = [state |-> state', known |-> known_channels']
  /\ marked' = {}
  /\ prevFetched' = IF pc = "killed" THEN curFetched ELSE {}
  /\ curFetched' = {}
  /\ UNCHANGED <<kills, fs>>
  /\ UNCHANGED pure

\* process_keyword returns to main's for loop (lines 256-259)
ReturnToMain ==
  /\ IF kwIdx < NumKeywords
     THEN kwIdx' = kwIdx + 1 /\ pc' = "entry"
     ELSE kwIdx' = kwIdx /\ pc' = "finished"
  /\ ResetLocals

\* process_keyword, lines 166-178
Entry ==
  /\ pc = "entry"
  /\ state' = setdefault(state, keyword)
  /\ IF state'[keyword].completed
     THEN ReturnToMain
     ELSE /\ pc' = "loop"
          /\ current_key_index' = 0
          /\ exhausted_keys' = {}
          /\ UNCHANGED <<kills, kwIdx, attempt, req, resp>>
  /\ UNCHANGED <<kills, known_channels, fs, wstep, history>>
  /\ UNCHANGED pure

\* lines 180-182 and 137-147: the loop test and the request's parameters
Loop ==
  /\ pc = "loop"
  /\ IF kw_state.completed
     THEN ReturnToMain
     ELSE /\ req' = [q |-> keyword, key |-> current_key_index,
                     pageToken |-> IF Truthy(kw_state.last_page_token)
                                   THEN kw_state.last_page_token ELSE NoneTok]
          /\ attempt' = 0
          /\ pc' = "request"
          /\ UNCHANGED <<kills, kwIdx, current_key_index, exhausted_keys, resp>>
  /\ UNCHANGED <<kills, state, known_channels, fs, wstep, history>>
  /\ UNCHANGED pure

\* request_with_retries, lines 118-122: an attempt that obtains a response
AttemptResponse ==
  /\ pc = "request"
  /\ attempt' = attempt + 1
  /\ \E r \in Responses(req.pageToken) :
       /\ resp' = r
       /\ curFetched' = IF HasData(r)
                        THEN curFetched \cup {<<req.q, PageOf(req.pageToken)>>}
                        ELSE curFetched
  /\ pc' = "handle"
  /\ UNCHANGED <<kills, kwIdx, state, known_channels, fs, wstep, current_key_index,
                 exhausted_keys, req, snap, marked, prevFetched>>
  /\ UNCHANGED pure

\* variant: "attempt > retries" in place of "attempt >= retries"
AttemptNetworkError_OneMore ==
  /\ pc = "request"
  /\ attempt' = attempt + 1
  /\ pc' = IF attempt' > retries THEN "aborted" ELSE "retry_sleep"
  /\ UNCHANGED <<kills, kwIdx, state, known_channels, fs, wstep, current_key_index,
                 exhausted_keys, req, resp, history>>
  /\ UNCHANGED pure

\* request_with_retries, lines 123-126: an attempt that fails at network
\* level; the last one re-raises, and neither process_keyword nor main
\* catches the exception; after the others comes time.sleep(delay)
AttemptNetworkError ==
  /\ pc = "request"
  /\ attempt' = attempt + 1
  /\ pc' = IF attempt' >= retries THEN "aborted" ELSE "retry_sleep"
  /\ UNCHANGED <<kills, kwIdx, state, known_channels, fs, wstep, current_key_index,
                 exhausted_keys, req, resp, history>>
  /\ UNCHANGED pure

\* request_with_retries, line 127: time.sleep(delay) is over, and the loop
\* goes round to the next attempt
RetrySleep ==
  /\ pc = "retry_sleep"
  /\ pc' = "request"
  /\ UNCHANGED <<kills, kwIdx, state, known_channels, fs, wstep, locals, history>>
  /\ UNCHANGED pure

\* lines 184-200, a quota response while another key is still usable:
\* mark the key, switch, and go round the loop again
HandleQuotaSwitch ==
  /\ pc = "handle"
  /\ IsQuota(resp)
  /\ LET exhausted == MarkExhausted(exhausted_keys, current_key_index)
         next_key_info == get_next_api_key(api_keys, exhausted, current_key_index)
     IN /\ next_key_info # NoKeyInfo
        /\ exhausted_keys' = exhausted
        /\ current_key_index' = next_key_info[1]
        /\ marked' = marked \cup {current_key_index}
  /\ pc' = "loop"
  /\ UNCHANGED <<kills, kwIdx, state, known_channels, fs, wstep, attempt, req, resp,
                 snap, curFetched, prevFetched>>
  /\ UNCHANGED pure

\* lines 184-194, a quota response that leaves no usable key
HandleQuotaHalt ==
  /\ pc = "handle"
  /\ IsQuota(resp)
  /\ LET exhausted == MarkExhausted(exhausted_keys, current_key_index)
     IN /\ get_next_api_key(api_keys, exhausted, current_key_index) = NoKeyInfo
        /\ exhausted_keys' = exhausted
        /\ marked' = marked \cup {current_key_index}
  /\ pc' = "halt_save_state"
  /\ UNCHANGED <<kills, kwIdx, state, known_channels, fs, wstep, current_key_index,
                 attempt, req, resp, snap, curFetched, prevFetched>>
  /\ UNCHANGED pure

\* lines 184 and 201-202: any other response without data
HandleFailure ==
  /\ pc = "handle"
  /\ ~HasData(resp)
  /\ ~IsQuota(resp)
  /\ resp' = NoResponse                     \* logged (line 202) and not read again
  /\ pc' = "fail_save_state"
  /\ UNCHANGED <<kills, kwIdx, state, known_channels, fs, wstep, current_key_index,
                 exhausted_keys, attempt, req, history>>
  /\ UNCHANGED pure

\* lines 207-218: merge the page's channels, count its items, store its cursor
HandleSuccess ==
  /\ pc = "handle"
  /\ HasData(resp)
  /\ known_channels' = MergeItems(known_channels, resp.items)
  /\ state' = [state EXCEPT ![keyword] =
                 [@ EXCEPT !.fetched_count = @ + Len(resp.items),
                           !.last_page_token = resp.next]]
  /\ snap' = [state |-> state', known |-> known_channels']
  /\ resp' = [resp EXCEPT !.items = <<>>]   \* the items are not read again
  /\ pc' = "ok_save_state"
  /\ UNCHANGED <<kills, kwIdx, fs, wstep, current_key_index, exhausted_keys, attempt,
                 req, marked, curFetched, prevFetched>>
  /\ UNCHANGED pure

\* the file a save position writes, and the text written to it
SaveTarget ==
  IF pc \in {"ok_save_state", "done_save_state", "fail_save_state", "halt_save_state"}
  THEN "state_file" ELSE "output_file"
SaveText ==
  IF SaveTarget = "state_file"
  THEN Text(json_dump(state)) ELSE Text(dump_channels(known_channels))

\* where control goes after each save
AfterSave ==
  CASE pc = "ok_save_state" -> "ok_save_out"
    [] pc = "ok_save_out" -> "check"
    [] pc = "done_save_state" -> "return"
    [] pc = "fail_save_state" -> "fail_save_out"
    [] pc = "fail_save_out" -> "return"
    [] pc = "halt_save_state" -> "halt_save_out"
    [] OTHER -> "sys_exit"

\* save_state / save_known_channels: tmp_path.open("w") truncates the temporary file
SaveOpen ==
  /\ pc \in SavePcs
  /\ wstep = 0
  /\ fs' = [fs EXCEPT ![with_suffix_tmp(SaveTarget)] = Partial]
  /\ wstep' = 1
  /\ UNCHANGED <<pc, kills, kwIdx, state, known_channels, locals, history>>
  /\ UNCHANGED pure

\* save_state / save_known_channels: the text is written and the file closed
SaveWrite ==
  /\ pc \in SavePcs
  /\ wstep = 1
  /\ fs' = [fs EXCEPT ![with_suffix_tmp(SaveTarget)] = SaveText]
  /\ wstep' = 2
  /\ UNCHANGED <<pc, kills, kwIdx, state, known_channels, locals, history>>
  /\ UNCHANGED pure

\* save_state / save_known_channels: tmp_path.replace(target), an atomic rename
SaveReplace ==
  /\ pc \in SavePcs
  /\ wstep = 2
  /\ LET tmp_path == with_suffix_tmp(SaveTarget)
     IN fs' = IF tmp_path = SaveTarget THEN fs
              ELSE [fs EXCEPT ![SaveTarget] = fs[tmp_path], ![tmp_path] = Absent]
  /\ wstep' = 0
  /\ IF AfterSave = "return"
     THEN ReturnToMain
     ELSE pc' = AfterSave /\ UNCHANGED <<kills, kwIdx, locals>>
  /\ UNCHANGED <<kills, state, known_channels, history>>
  /\ UNCHANGED pure

\* variant: completed is set and process_keyword returns without saving it
Check_NoSave ==
  /\ pc = "check"
  /\ IF ShouldComplete(kw_state)
     THEN /\ state' = [state EXCEPT ![keyword].completed = TRUE]
          /\ snap' = [snap EXCEPT !.state = state']
          /\ ReturnToMain
     ELSE /\ pc' = "loop"
          /\ UNCHANGED <<state, snap, kwIdx, locals>>
  /\ UNCHANGED <<kills, known_channels, fs, wstep, marked, curFetched, prevFetched>>
  /\ UNCHANGED pure

\* lines 228-235: the completion test after a page has been saved
Check ==
  /\ pc = "check"
  /\ IF ShouldComplete(kw_state)
     THEN /\ state' = [state EXCEPT ![keyword].completed = TRUE]
          /\ snap' = [snap EXCEPT !.state = state']
          /\ pc' = "done_save_state"
     ELSE /\ pc' = "loop"
          /\ UNCHANGED <<state, snap>>
  /\ UNCHANGED <<kills, kwIdx, known_channels, fs, wstep, locals, marked,
                 curFetched, prevFetched>>
  /\ UNCHANGED pure

\* variant: the halt only returns from process_keyword
SysExit_Return ==
  /\ pc = "sys_exit"
  /\ ReturnToMain
  /\ UNCHANGED <<kills, state, known_channels, fs, wstep, history>>
  /\ UNCHANGED pure

\* line 197: sys.exit(0) ends the whole process
SysExit ==
  /\ pc = "sys_exit"
  /\ pc' = "exited"
  /\ UNCHANGED <<kills, kwIdx, state, known_channels, fs, wstep, locals, history>>
  /\ UNCHANGED pure

\* the process is killed from outside, at any point.  Its locals are gone;
\* state and known_channels keep the dead process's last values until the
\* next process overwrites them in MainStart
Kill ==
  /\ pc \notin Terminal \cup {"start"}
  /\ kills < MaxKills
  /\ kills' = kills + 1
  /\ pc' = "killed"
  /\ wstep' = 0
  /\ kwIdx' = 0
  /\ ResetLocals
  /\ snap' = [state |-> <<>>, known |-> {}]
  /\ marked' = {}
  /\ fs' = [p \in Paths |->
             IF p \in {with_suffix_tmp(t) : t \in {"state_file", "output_file"}}
                /\ fs[p] # Absent
             THEN Leftover ELSE fs[p]]
  /\ UNCHANGED <<state, known_channels, curFetched, prevFetched>>
  /\ UNCHANGED pure

Next ==
  \/ MainStart
  \/ Entry
  \/ Loop
  \/ AttemptResponse
  \/ AttemptNetworkError
  \/ RetrySleep
  \/ HandleQuotaSwitch
  \/ HandleQuotaHalt
  \/ HandleFailure
  \/ HandleSuccess
  \/ SaveOpen
  \/ SaveWrite
  \/ SaveReplace
  \/ Check
  \/ SysExit
  \/ Kill

Spec == Init /\ [][Next]_vars

TypeOK ==
  /\ pc \in {"start", "entry", "loop", "request", "retry_sleep", "handle", "check",
             "sys_exit"}
             \cup SavePcs \cup Terminal
  /\ wstep \in 0..2
  /\ current_key_index \in KeyIndexes
  /\ exhausted_keys \subseteq KeyIndexes
  /\ attempt \in 0..retries
  /\ DOMAIN state \subseteq KeywordIds

\* ------------------------------------------------------------- one run
\* main() is started once, on no files, and is not killed
FirstStart ==
  /\ pc = "start"
  /\ MainStart

RunNext ==
  \/ FirstStart
  \/ Entry
  \/ Loop
  \/ AttemptResponse
  \/ AttemptNetworkError
  \/ RetrySleep
  \/ HandleQuotaSwitch
  \/ HandleQuotaHalt
  \/ HandleFailure
  \/ HandleSuccess
  \/ SaveOpen
  \/ SaveWrite
  \/ SaveReplace
  \/ Check
  \/ SysExit

RunSpec == Init /\ [][RunNext]_vars

\* the process is the only thread and nothing suspends it: as long as it has
\* a next step it takes it (every request is answered or fails within its
\* timeout, every sleep ends)
RunFair == RunSpec /\ WF_vars(RunNext)

\* ------------------------------------------- functions called on their own
\* the variables of main(), which a call made on its own leaves alone
program == <<pc, kills, kwIdx, state, known_channels, fs, wstep, current_key_index,
             exhausted_keys, attempt, req, resp, snap, marked, curFetched, prevFetched>>

\* get_next_api_key(keys, exhausted, current_index) for every pool of 1 to
\* MaxPool keys, every set of exhausted indexes and every current index
KeyCalls ==
  UNION {{[fn |-> "get_next_api_key", keys |-> KeyPool(n), exhausted |-> e,
           current_index |-> i] : e \in SUBSET (0..(n - 1)), i \in 0..(n - 1)} :
         n \in 1..MaxPool}

\* lines 207-221 on their own: a registry, then the items of a page and of
\* another page merged into it, and the registry written out
MergeCalls ==
  LET lists == SeqsUpTo(0..MaxMergeIds, MaxMergeItems)
  IN {[fn |-> "merge_pages", channels |-> {ChannelUrl(c) : c \in cs},
       first |-> p, second |-> q] :
        cs \in SUBSET (1..MaxMergeIds), p \in lists, q \in lists}

\* the progress records and the state mappings the program can build
ProgressRecords ==
  [last_page_token : {NoneTok} \cup (1..MaxPageTok),
   fetched_count : 0..(max_results + MaxItems - 1),
   completed : BOOLEAN]
StateMappings == UNION {[ks -> ProgressRecords] : ks \in SUBSET KeywordIds}

\* save_state then load_state then save_state again, on every state mapping
StateCalls == {[fn |-> "save_load_state", state |-> st] : st \in StateMappings}

\* save_known_channels then load_known_channels then save_known_channels
\* again, on every registry
ChannelCalls ==
  {[fn |-> "save_load_channels", channels |-> {ChannelUrl(c) : c \in cs}] :
     cs \in SUBSET (1..MaxMergeIds)}

PureCalls == KeyCalls \cup MergeCalls \cup StateCalls \cup ChannelCalls

PureInit ==
  /\ Idle
  /\ call \in PureCalls
  /\ ret = NoReturn

CallGetNextApiKey ==
  /\ call.fn = "get_next_api_key"
  /\ ~ret.done
  /\ ret' = Returned(get_next_api_key(call.keys, call.exhausted, call.current_index))
  /\ UNCHANGED <<call, program>>

CallMergePages ==
  /\ call.fn = "merge_pages"
  /\ ~ret.done
  /\ LET merged == MergeItems(MergeItems(call.channels, call.first), call.second)
     IN ret' = Returned([known_channels |-> merged, text |-> dump_channels(merged)])
  /\ UNCHANGED <<call, program>>

CallSaveLoadState ==
  /\ call.fn = "save_load_state"
  /\ ~ret.done
  /\ LET saved == Text(json_dump(call.state))
         loaded == load_state(saved)
     IN ret' = Returned([saved |-> saved, loaded |-> loaded,
                         again |-> Text(json_dump(loaded))])
  /\ UNCHANGED <<call, program>>

CallSaveLoadChannels ==
  /\ call.fn = "save_load_channels"
  /\ ~ret.done
  /\ LET saved == Text(dump_channels(call.channels))
         loaded == load_known_channels(saved)
     IN ret' = Returned([saved |-> saved, loaded |-> loaded,
                         again |-> Text(dump_channels(loaded))])
  /\ UNCHANGED <<call, program>>

PureNext ==
  \/ CallGetNextApiKey
  \/ CallMergePages
  \/ CallSaveLoadState
  \/ CallSaveLoadChannels

PureSpec == PureInit /\ [][PureNext]_vars

\* ------------------------------------------------------------ properties
Comp(st, k) == k \in DOMAIN st /\ st[k].completed
Count(st, k) == IF k \in DOMAIN st THEN st[k].fetched_count ELSE 0
Progress(st, k) == IF k \in DOMAIN st THEN st[k] ELSE DefaultProgress

persisted_state == load_state(fs["state_file"])
persisted_channels == load_known_channels(fs["output_file"])

\* the pages of keyword k fetched successfully so far in this run
FetchedPages(k) == {p[2] : p \in {x \in curFetched : x[1] = k}}

\* the step is taken by the running process (the process is not killed in it)
Alive == pc' # "killed"

\* C1: a keyword's completed flag goes from false to true only in the
\* completion test that follows a successfully fetched and saved page, and
\* that test sets it exactly when fetched_count >= max_results_per_keyword or
\* the page carried no next-page cursor; a quota response, another failure
\* or a transport failure never sets it.
C1_CompletedIff ==
  [][ /\ \A k \in KeywordIds :
           (~Comp(state, k) /\ Comp(state', k)) =>
              /\ pc = "check"
              /\ k = keyword
              /\ HasData(resp)
              /\ (state[k].fetched_count >= max_results \/ resp.next = NoneTok)
      /\ (pc = "check" /\ Alive) =>
            (Comp(state', keyword) <=>
               (kw_state.fetched_count >= max_results \/ resp.next = NoneTok))
      /\ (pc = "handle" /\ ~HasData(resp)) => ~Comp(state', keyword)
      /\ (pc = "request" /\ pc' = "aborted") => ~Comp(state', keyword)
    ]_vars

\* C1 witness: a keyword has just been completed by reaching the cap
C1_Witness ==
  /\ pc = "done_save_state"
  /\ kw_state.completed
  /\ kw_state.fetched_count >= max_results

\* C2: a quota response that leaves a usable key adds the current index to
\* the exhausted set, switches to the index get_next_api_key returns (a key
\* that is not exhausted) and changes neither the state mapping, the
\* registry nor the files; the request issued next has the same keyword and
\* the same page token as the refused one and carries the new key; and
\* fetched_count only ever changes when a page with data is handled, by the
\* number of its items.
C2_QuotaSwitchRetriesSamePage ==
  [][ /\ ( /\ pc = "handle"
           /\ resp.status = 403
           /\ resp.parseable
           /\ resp.reasons \cap {"quotaExceeded", "dailyLimitExceeded"} # {}
           /\ KeyIndexes \ (exhausted_keys \cup {current_key_index}) # {}
           /\ Alive )
         => /\ exhausted_keys' = exhausted_keys \cup {current_key_index}
            /\ current_key_index' =
                 get_next_api_key(api_keys, exhausted_keys \cup {current_key_index},
                                  current_key_index)[1]
            /\ current_key_index' \notin exhausted_keys'
            /\ state' = state
            /\ known_channels' = known_channels
            /\ fs' = fs
            /\ pc' = "loop"
      /\ (pc = "loop" /\ resp.status = 403 /\ Alive)
         => /\ pc' = "request"
            /\ req'.q = req.q
            /\ req'.pageToken = req.pageToken
            /\ req'.key = current_key_index
            /\ req'.key \notin exhausted_keys
            /\ state' = state
      /\ \A k \in KeywordIds :
           (Count(state', k) # Count(state, k) /\ pc # "killed") =>
              /\ pc = "handle"
              /\ HasData(resp)
              /\ k = keyword
              /\ Count(state', k) = Count(state, k) + Len(resp.items)
    ]_vars

\* C2 witness: the first key was refused, and the page then fetched with
\* the second key has been counted
C2_Witness ==
  /\ pc = "ok_save_state"
  /\ exhausted_keys = {0}
  /\ current_key_index = 1
  /\ kw_state.fetched_count = 1
  /\ req.pageToken = NoneTok

\* C3: when a quota response leaves no usable key, the process saves state
\* and registry and exits with code 0 without issuing another request; at
\* the exit both files hold the in-memory state and registry, which are
\* those of the last successful page, and the current keyword is not
\* completed.
C3_GlobalHalt ==
  /\ [](pc = "exited" =>
          /\ persisted_state = state
          /\ persisted_channels = known_channels
          /\ \A k \in KeywordIds : Progress(state, k) = Progress(snap.state, k)
          /\ known_channels = snap.known
          /\ ~kw_state.completed)
  /\ [][ /\ ( /\ pc = "handle"
              /\ resp.status = 403
              /\ resp.parseable
              /\ resp.reasons \cap {"quotaExceeded", "dailyLimitExceeded"} # {}
              /\ KeyIndexes \ (exhausted_keys \cup {current_key_index}) = {}
              /\ Alive )
            => pc' = "halt_save_state" /\ state' = state /\ known_channels' = known_channels
         /\ (pc \in {"halt_save_state", "halt_save_out", "sys_exit"} /\ Alive)
            => /\ pc' \in {"halt_save_state", "halt_save_out", "sys_exit", "exited"}
               /\ kwIdx' = kwIdx
               /\ state' = state
               /\ known_channels' = known_channels
       ]_vars

\* C3 witness: the process has exited after a page of the current keyword
\* had been fetched and every key was then refused
C3_Witness ==
  /\ pc = "exited"
  /\ kills = 0
  /\ Truthy(kw_state.last_page_token)
  /\ exhausted_keys = KeyIndexes

\* C4: once a key index has been marked exhausted by a quota response
\* during a run, no later request of that run, for any keyword, carries it.
C4_ExhaustedIsRunScoped ==
  pc = "request" => req.key \notin marked

\* C5: a run started after a kill re-fetches, for every keyword, at most one
\* of the pages the killed run had fetched for it.
C5_RefetchAtMostOnePage ==
  \A k \in KeywordIds :
    Cardinality({p \in curFetched \cap prevFetched : p[1] = k}) <= 1

\* C6: a search request that ends without a response, its retries exhausted
\* on transport failures, does not end the run: process_keyword stops the
\* keyword at most, and main goes on with the keywords after it.
C6_TransportFailureIsLocal ==
  [][ (pc = "request" /\ pc' \notin {"request", "retry_sleep", "handle", "killed"})
        => pc' \in {"entry", "finished", "fail_save_state"} ]_vars

\* what C7 calls a non-quota failure: a non-200 status other than a quota
\* 403, a 403 without a quota reason, or a 200 whose body does not parse
NonQuotaFailure(r) ==
  \/ r.status = 200 /\ ~r.parseable
  \/ /\ r.status \notin {0, 200}
     /\ ~( /\ r.status = 403
           /\ r.parseable
           /\ r.reasons \cap {"quotaExceeded", "dailyLimitExceeded"} # {} )

\* C7: on a non-quota failure process_keyword saves state and registry and
\* returns without another request for the keyword; state and registry are
\* not changed on the way, the keyword stays not completed with the
\* progress of the last successful page, both files hold the in-memory
\* values at the return, and main goes on with the next keyword.
C7_FailureBlocksKeyword ==
  [][ /\ (pc = "handle" /\ NonQuotaFailure(resp) /\ Alive)
         => /\ pc' = "fail_save_state"
            /\ state' = state
            /\ known_channels' = known_channels
      /\ (pc \in {"fail_save_state", "fail_save_out"} /\ Alive)
         => /\ state' = state
            /\ known_channels' = known_channels
            /\ ~kw_state.completed
            /\ kw_state = Progress(snap.state, keyword)
            /\ pc' \in {"fail_save_state", "fail_save_out", "entry", "finished"}
            /\ (pc' \in {"entry", "finished"} =>
                  /\ load_state(fs'["state_file"]) = state
                  /\ load_known_channels(fs'["output_file"]) = known_channels
                  /\ IF kwIdx < NumKeywords
                     THEN pc' = "entry" /\ kwIdx' = kwIdx + 1
                     ELSE pc' = "finished")
    ]_vars

\* C7 witness: the first keyword was blocked by a failure after one fetched
\* page, and the second keyword's request is in flight
C7_Witness ==
  /\ pc = "request"
  /\ kwIdx = 2
  /\ kills = 0
  /\ ~state[1].completed
  /\ Truthy(state[1].last_page_token)
  /\ persisted_state[1] = state[1]

\* C8: at every instant each target file holds a complete text (or does not
\* exist yet), and every change of a target file puts the complete text of
\* the data being saved in it.
C8_AtomicSaves ==
  /\ [](\A t \in {"state_file", "output_file"} : fs[t].kind \in {"absent", "text"})
  /\ [][ /\ fs'["state_file"] # fs["state_file"]
            => fs'["state_file"] = Text(json_dump(state))
         /\ fs'["output_file"] # fs["output_file"]
            => fs'["output_file"] = Text(dump_channels(known_channels))
       ]_vars

\* C8 witness: the process was killed while a new state was being written,
\* and the state file still holds the state saved before, not the new one
C8_Witness ==
  /\ pc = "killed"
  /\ fs["state_file.tmp"] = Leftover
  /\ fs["state_file"].kind = "text"
  /\ fs["state_file"] # Text(json_dump(state))

\* C9 as stated: over every step, restarts after any kind of end included,
\* neither the persisted nor the in-memory fetched_count of a keyword
\* decreases, and neither completed flag goes from true to false.
C9_MonotoneEverywhere ==
  [][ \A k \in KeywordIds :
        /\ Count(persisted_state', k) >= Count(persisted_state, k)
        /\ Comp(persisted_state, k) => Comp(persisted_state', k)
        /\ Count(state', k) >= Count(state, k)
        /\ Comp(state, k) => Comp(state', k)
    ]_vars

\* C9 amended: the persisted fetched_count never decreases and a persisted
\* completed flag is never reset, over every step; the in-memory ones never
\* decrease within a run nor over a restart after a normal end, a global
\* halt, a failure or an uncaught exception; a run started after a kill
\* starts from the persisted values.
C9_MonotonePersisted ==
  [][ /\ \A k \in KeywordIds :
           /\ Count(persisted_state', k) >= Count(persisted_state, k)
           /\ Comp(persisted_state, k) => Comp(persisted_state', k)
           /\ pc # "killed" =>
                /\ Count(state', k) >= Count(state, k)
                /\ Comp(state, k) => Comp(state', k)
      /\ pc = "killed" => state' = persisted_state
    ]_vars

\* C9 witness: a run started after a kill goes on from the progress the
\* killed run had saved
C9_Witness ==
  /\ pc = "loop"
  /\ kills = 1
  /\ curFetched = {}
  /\ prevFetched # {}
  /\ kw_state.fetched_count >= 1

\* C10: entering process_keyword for a completed keyword changes neither
\* the state mapping, the registry, the credential locals nor the files and
\* issues no request; and no request is ever in flight for a keyword that
\* the state file records as completed.
C10_CompletedIsSkipped ==
  /\ [](pc = "request" => ~Comp(persisted_state, req.q))
  /\ [][ (pc = "entry" /\ Comp(state, keyword) /\ Alive)
           => /\ state' = state
              /\ known_channels' = known_channels
              /\ fs' = fs
              /\ current_key_index' = current_key_index
              /\ exhausted_keys' = exhausted_keys
              /\ req' = req
              /\ pc' \in {"entry", "finished"}
       ]_vars

\* C10 witness: a later run has skipped the completed first keyword and
\* stands at the second one, itself completed
C10_Witness ==
  /\ pc = "entry"
  /\ kwIdx = 2
  /\ curFetched = {}
  /\ Comp(state, 1)
  /\ Comp(state, 2)

\* C11: for every pool of N >= 1 keys, every current index and every set of
\* exhausted indexes, get_next_api_key returns None exactly when every index
\* 0..N-1 is exhausted, and otherwise the index (current_index + d) % N for
\* the smallest d in 1..N that gives an index not exhausted, paired with the
\* key at that index.
C11_RoundRobinScan ==
  (call.fn = "get_next_api_key" /\ ret.done) =>
    LET N == Len(call.keys)
        usable == {d \in 1..N : (call.current_index + d) % N \notin call.exhausted}
    IN /\ ret.value = NoKeyInfo <=> (0..(N - 1)) \subseteq call.exhausted
       /\ usable # {} =>
            LET first == CHOOSE d \in usable : \A e \in usable : d <= e
                idx == (call.current_index + first) % N
            IN ret.value = <<idx, call.keys[idx + 1]>>

\* C11 witness: the scan has wrapped round the end of the pool and skipped
\* an exhausted index on its way to the one it returned
C11_Witness ==
  /\ call.fn = "get_next_api_key"
  /\ ret.done
  /\ ret.value # NoKeyInfo
  /\ ret.value[1] < call.current_index
  /\ 0 \in call.exhausted
  /\ ret.value[1] # 0

C13_NeverShrinksEverywhere ==
  [][ /\ known_channels \subseteq known_channels'
      /\ persisted_channels \subseteq persisted_channels'
      /\ pc' = "check" => known_channels' \subseteq persisted_channels'
    ]_vars

\* C13 amended: no URL ever leaves the output file; none leaves the
\* in-memory registry within a run nor over a restart after a normal end, a
\* global halt, a failure or an uncaught exception; a run started after a
\* kill starts from the registry in the output file; and once a page has
\* been handled and saved the output file holds exactly the in-memory
\* registry.
C13_NeverShrinksPersisted ==
  [][ /\ persisted_channels \subseteq persisted_channels'
      /\ pc # "killed" => known_channels \subseteq known_channels'
      /\ pc = "killed" => known_channels' = persisted_channels
      /\ pc' = "check" => known_channels' = persisted_channels'
    ]_vars

\* C13 witness: a run started after a kill has handled and saved a page, and
\* the output file holds a registry that is not empty
C13_Witness ==
  /\ pc = "check"
  /\ kills = 1
  /\ prevFetched # {}
  /\ curFetched # {}
  /\ known_channels # {}
  /\ persisted_channels = known_channels

\* C14: merging the items of fetched pages into a registry gives the
\* registry united with the URL of every channelId an item carries: a
\* channelId repeated within a page, across pages or already in the registry
\* gives one entry, an item without channelId gives none; and the text
\* written to the output file lists exactly these URLs, each once, in
\* ascending order.
C14_RegistryIsUnionOfPages ==
  (call.fn = "merge_pages" /\ ret.done) =>
    LET ids == ({call.first[i] : i \in DOMAIN call.first}
                  \cup {call.second[i] : i \in DOMAIN call.second}) \ {0}
        expected == call.channels \cup {ChannelUrl(c) : c \in ids}
        text == ret.value.text
    IN /\ ret.value.known_channels = expected
       /\ {text[i] : i \in DOMAIN text} = expected
       /\ Len(text) = Cardinality(expected)
       /\ \A i, j \in DOMAIN text : i < j => text[i][2] < text[j][2]

\* C14 witness: a channelId came twice in one page and again in the next,
\* with an item without channelId, and the registry lists it once next to a
\* URL it held before
C14_Witness ==
  /\ call.fn = "merge_pages"
  /\ ret.done
  /\ call.channels = {ChannelUrl(2)}
  /\ call.first = <<1, 1>>
  /\ call.second = <<0, 1>>
  /\ ret.value.text = <<ChannelUrl(1), ChannelUrl(2)>>

\* C15 as stated: whenever a search request is in flight, whenever
\* process_keyword has returned and whenever the process has exited, the
\* state file holds the in-memory state mapping and the output file the
\* in-memory registry.
C15_SavedAtRequestsAndReturns ==
  pc \in {"request", "entry", "finished", "exited"} =>
    /\ persisted_state = state
    /\ persisted_channels = known_channels

\* C15 amended: at those points, and when an uncaught exception ends the
\* process, the output file holds the in-memory registry and the state
\* file holds the progress of every keyword: it holds the in-memory mapping
\* itself, but for the default record that process_keyword has just created
\* for a keyword new to it, which is in the file only after the keyword's
\* first page or failure.
C15_SavedUpToDefaultRecord ==
  pc \in {"request", "entry", "finished", "exited", "aborted"} =>
    /\ persisted_channels = known_channels
    /\ \A k \in KeywordIds : Progress(persisted_state, k) = Progress(state, k)
    /\ \A k \in DOMAIN state :
         k \notin DOMAIN persisted_state =>
           /\ pc \in {"request", "aborted"}
           /\ k = keyword
           /\ state[k] = DefaultProgress

\* C15 witness: the second request of a keyword is in flight, and the files
\* hold the page fetched before it
C15_Witness ==
  /\ pc = "request"
  /\ Truthy(req.pageToken)
  /\ known_channels # {}
  /\ persisted_state = state
  /\ persisted_channels = known_channels

\* C16: a call of request_with_retries makes at most 3 attempts; an attempt
\* that obtains a response, of whatever status, ends the call with that
\* response and no further attempt; an attempt that fails at network level
\* is followed by the sleep and then by the next attempt, unless it is the
\* third, which raises; so the call raises exactly when three attempts in a
\* row have failed at network level.
C16_AtMostThreeAttempts ==
  /\ [](attempt <= 3)
  /\ [](pc \in {"request", "retry_sleep"} => attempt < 3)
  /\ [](pc = "retry_sleep" => attempt >= 1)
  /\ [](pc = "aborted" => attempt = 3)
  /\ [][ /\ (pc = "loop" /\ pc' = "request") => attempt' = 0
         /\ (pc = "request") =>
              /\ attempt' = attempt + 1
              /\ \/ pc' = "handle" /\ resp' \in Responses(req.pageToken)
                 \/ pc' = "retry_sleep" /\ attempt' < 3 /\ resp' = resp
                 \/ pc' = "aborted" /\ attempt' = 3 /\ resp' = resp
         /\ (pc = "retry_sleep") =>
              pc' = "request" /\ attempt' = attempt /\ req' = req
         /\ (pc = "handle") => pc' # "request"
       ]_vars

\* C16 witness: two attempts failed at network level, the third obtained a
\* response with an error status, and the call returned it
C16_Witness ==
  /\ pc = "handle"
  /\ attempt = 3
  /\ resp.status = 500

C18_RegistryCoversSavedPages ==
  (\A k \in KeywordIds : Progress(persisted_state, k) = Progress(state, k))
    => known_channels \subseteq persisted_channels

\* C19: whatever the API answers, a run that is not killed ends: main()
\* returns after the last keyword, or the process exits on the global halt
\* or on the exception of a request without response; so every keyword
\* processed reaches its outcome after finitely many requests.
C19_EveryRunEnds ==
  <>(pc \in {"finished", "exited", "aborted"})

\* C20: in whatever the state file holds, a keyword that is not completed
\* has fetched_count < max_results_per_keyword and, if items have been
\* fetched for it, a cursor as last_page_token; and no request is in flight
\* for a keyword whose fetched_count has reached max_results_per_keyword.
C20_IncompleteIsUnderCap ==
  /\ \A k \in DOMAIN persisted_state :
       ~persisted_state[k].completed =>
         /\ persisted_state[k].fetched_count < max_results
         /\ persisted_state[k].fetched_count > 0 =>
              Truthy(persisted_state[k].last_page_token)
  /\ pc = "request" => Count(state, req.q) < max_results

====
